---- MODULE Spec2Model ----
(***************************************************************************)
(* Model of YoloWebcamDemo.py: the capture / detect / measure / overlay    *)
(* loop.  The camera, the detector and the keyboard are the environment:   *)
(* cap.read() returns ok or not, model.predict() returns any list of       *)
(* detections, cv2.waitKey() returns any key code.                         *)
(*                                                                         *)
(* Numbers.  Box coordinates are floats in the program.  Here a pixel      *)
(* length is an integer count of 1/SubPx pixel units (fixed point), and    *)
(* mm_per_px, target_px are exact rationals <<num, den>> in lowest terms.  *)
(* Floating-point rounding error of the two divisions is not modelled.     *)
(* Python's None is the empty tuple, so that None, a rational and a box    *)
(* are all tuples and can be compared.                                     *)
(***************************************************************************)
EXTENDS Integers, Sequences, FiniteSets, TLC

\* ---------------------------------------------------------------- bounds
MaxCoord == 3      \* box coordinates range over 1..MaxCoord sub-pixel units
MaxDets  == 2      \* at most this many detections in one frame
SubPx    == 2      \* sub-pixel units per pixel

\* ------------------------------------------------------- program constants
FIDUCIAL_MM == 50
ESC == 27
CLASS_NAMES == (0 :> "induration") @@ (1 :> "fiducial")

None == << >>

\* -------------------------------------------------------------- inputs
ClassIds == {0, 1, 7}
Coords == 1..MaxCoord
\* sample boxes (x1, y1, x2, y2), x1 <= x2, y1 <= y2: the top-left corner is the
\* first sample point; the box is a point, a horizontal or vertical line, or a square
Boxes == {b \in Coords \X Coords \X Coords \X Coords :
            b[1] = 1 /\ b[2] = 1 /\ (b[3] = 1 \/ b[4] = 1 \/ b[3] = b[4])}
Detections == [cls : ClassIds, xyxy : Boxes]
\* waitKey: -1 is no key, 27 is ESC, 283 has the low byte of ESC
Keys == {-1, 27, 283}

\* -------------------------------------------------------------- numbers
RECURSIVE Gcd(_, _)
Gcd(a, b) == IF b = 0 THEN a ELSE Gcd(b, a % b)

\* the rational n/d (d > 0, n >= 0) in lowest terms
Rat(n, d) == LET g == Gcd(n, d) IN <<n \div g, d \div g>>

\* dict.get: the value or None
ClassName(c) == IF c \in DOMAIN CLASS_NAMES THEN CLASS_NAMES[c] ELSE "None"

MaxOf(a, b) == IF a >= b THEN a ELSE b

\* int(v) of a non-negative length of u sub-pixel units: truncation
IntPx(u) == u \div SubPx

\* round half to even of n/d (Python's round and the 'f' format), n >= 0, d > 0
RoundHalfEven(n, d) ==
    LET q == n \div d
        r == n % d
    IN  IF 2 * r < d THEN q
        ELSE IF 2 * r > d THEN q + 1
        ELSE IF q % 2 = 0 THEN q ELSE q + 1

\* f"{x:.2f}" of the rational x, as a count of hundredths; f"{x:.0f}" as an integer
Fmt2(x) == RoundHalfEven(100 * x[1], x[2])
Fmt0(x) == RoundHalfEven(x[1], x[2])

\* ------------------------------------------------------------- drawing
Prim(kind, pts, text, nums) == [kind |-> kind, pts |-> pts, text |-> text, nums |-> nums]

draw_box(img, xyxy, cls) ==
    LET x1 == IntPx(xyxy[1])
        y1 == IntPx(xyxy[2])
        x2 == IntPx(xyxy[3])
        y2 == IntPx(xyxy[4])
    IN  img \o << Prim("rectangle", <<x1, y1, x2, y2>>, cls, << >>),
                  Prim("label", <<x1, MaxOf(0, y1 - 6)>>, cls, << >>) >>

\* ------------------------------------------------- faulty loop bodies
\* "else:" in place of the second "elif": any other class is an induration
BoxStep_ElseInduration(loc, box) ==
    IF ClassName(box.cls) = "fiducial"
    THEN [loc EXCEPT !.fid = <<MaxOf(box.xyxy[3] - box.xyxy[1], box.xyxy[4] - box.xyxy[2])>>,
                     !.img = draw_box(loc.img, box.xyxy, "fiducial")]
    ELSE [loc EXCEPT !.ind = box.xyxy,
                     !.img = draw_box(loc.img, box.xyxy, "induration")]

\* the test for "fiducial" is "not induration": any other class is a fiducial
BoxStep_ElseFiducial(loc, box) ==
    IF ClassName(box.cls) = "induration"
    THEN [loc EXCEPT !.ind = box.xyxy,
                     !.img = draw_box(loc.img, box.xyxy, "induration")]
    ELSE [loc EXCEPT !.fid = <<MaxOf(box.xyxy[3] - box.xyxy[1], box.xyxy[4] - box.xyxy[2])>>,
                     !.img = draw_box(loc.img, box.xyxy, "fiducial")]

\* the largest fiducial of the frame is kept instead of the last
BoxStep_LargestWins(loc, box) ==
    LET w == box.xyxy[3] - box.xyxy[1]
        h == box.xyxy[4] - box.xyxy[2]
    IN  IF ClassName(box.cls) = "fiducial"
        THEN [loc EXCEPT !.fid = IF loc.fid = None THEN <<MaxOf(w, h)>>
                                 ELSE <<MaxOf(loc.fid[1], MaxOf(w, h))>>,
                         !.img = draw_box(loc.img, box.xyxy, "fiducial")]
        ELSE IF ClassName(box.cls) = "induration"
        THEN [loc EXCEPT !.ind = box.xyxy,
                         !.img = draw_box(loc.img, box.xyxy, "induration")]
        ELSE loc

\* ------------------------------------------------------- the loop body
\* one iteration of "for box in results.boxes" on the locals
\* loc = [fid, ind, img]
BoxStep(loc, box) ==
    LET w == box.xyxy[3] - box.xyxy[1]
        h == box.xyxy[4] - box.xyxy[2]
    IN  IF ClassName(box.cls) = "fiducial"
        THEN [loc EXCEPT !.fid = <<MaxOf(w, h)>>,
                         !.img = draw_box(loc.img, box.xyxy, "fiducial")]
        ELSE IF ClassName(box.cls) = "induration"
        THEN [loc EXCEPT !.ind = box.xyxy,
                         !.img = draw_box(loc.img, box.xyxy, "induration")]
        ELSE loc

\* faulty scale updates: the scale is computed once and never refreshed
NewScale_FirstOnly(fid, mm) ==
    IF mm = None /\ fid # None /\ fid[1] > 0
    THEN Rat(FIDUCIAL_MM * SubPx, fid[1])
    ELSE mm

\* the scale expires in a frame without a usable fiducial
NewScale_Expire(fid, mm) ==
    IF fid # None /\ fid[1] > 0
    THEN Rat(FIDUCIAL_MM * SubPx, fid[1])
    ELSE None

\* the ratio is inverted and the "> 0" test is dropped
NewScale_Inverted(fid, mm) ==
    IF fid # None
    THEN Rat(fid[1], FIDUCIAL_MM * SubPx)
    ELSE mm

\* "if fiducial_px_w and fiducial_px_w > 0: mm_per_px = FIDUCIAL_MM / fiducial_px_w"
NewScale(fid, mm) ==
    IF fid # None /\ fid[1] # 0 /\ fid[1] > 0
    THEN Rat(FIDUCIAL_MM * SubPx, fid[1])
    ELSE mm

\* round((a+b)/2) in place of int((a+b)/2)
Center_Round(a, b) == RoundHalfEven(a + b, 2 * SubPx)

\* int((a+b)/2) of two coordinates in sub-pixel units
Center(a, b) == (a + b) \div (2 * SubPx)

\* "if induration_box:" a 4-tuple is truthy, None is not
IndurationOverlay(img, ind) ==
    IF ind # None
    THEN img \o << Prim("circle", <<Center(ind[1], ind[3]), Center(ind[2], ind[4])>>, "", <<6>>),
                   Prim("text", <<20, 40>>, "Center bump in circle", << >>) >>
    ELSE img

\* FIDUCIAL_MM * mm_per_px in place of the quotient
TargetPx_Product(mm) == Rat(FIDUCIAL_MM * mm[1], mm[2])

\* "FIDUCIAL_MM / (mm_per_px if mm_per_px>0 else 1)"
TargetPx(mm) ==
    IF mm[1] > 0 THEN Rat(FIDUCIAL_MM * mm[2], mm[1]) ELSE Rat(FIDUCIAL_MM, 1)

\* "if mm_per_px:" None and 0.0 are falsy
ScaleTruthy(mm) == mm # None /\ mm[1] # 0

ScaleOverlay(img, mm) ==
    IF ScaleTruthy(mm)
    THEN img \o << Prim("text", <<20, 80>>, "Scale", <<Fmt2(mm), Fmt0(TargetPx(mm))>>) >>
    ELSE img

\* the primitives of one kind drawn on an image
HasKind(img, kind) == \E i \in 1..Len(img) : img[i].kind = kind
HasText(img, text) == \E i \in 1..Len(img) : img[i].kind = "text" /\ img[i].text = text

\* ---------------------------------------------------------------- state
VARIABLES
    pc,              \* position in the script
    ok,              \* result of the last cap.read()
    nboxes,          \* len(results.boxes) of the last predict
    boxes,           \* the detections of results.boxes the for loop has visited
    fiducial_px_w,   \* None or <<units>>
    induration_box,  \* None or <<x1, y1, x2, y2>>
    mm_per_px,       \* None or a rational
    target_px,       \* None until first computed, then a rational (pixels)
    img,             \* primitives drawn on the current frame
    key,             \* last value returned by cv2.waitKey
    released,        \* cap.release() and cv2.destroyAllWindows() done
    mm_before,       \* history: mm_per_px when the current frame was read
    last_pos_fid,    \* history: last positive size of a frame's last fiducial
    prev_marker      \* history: the frame displayed before this one had the marker

vars == <<pc, ok, nboxes, boxes, fiducial_px_w, induration_box, mm_per_px, target_px,
          img, key, released, mm_before, last_pos_fid, prev_marker>>

Init ==
    /\ pc = "read"
    /\ ok = TRUE
    /\ nboxes = 0
    /\ boxes = << >>
    /\ fiducial_px_w = None
    /\ induration_box = None
    /\ mm_per_px = None
    /\ target_px = None
    /\ img = << >>
    /\ key = -1
    /\ released = FALSE
    /\ mm_before = None
    /\ last_pos_fid = None
    /\ prev_marker = FALSE

\* a failed read is retried instead of ending the loop
Read_Retry ==
    /\ pc = "read"
    /\ \E r \in BOOLEAN :
         /\ ok' = r
         /\ pc' = IF r THEN "predict" ELSE "read"
    /\ img' = << >>
    /\ mm_before' = mm_per_px
    /\ UNCHANGED <<nboxes, boxes, fiducial_px_w, induration_box, mm_per_px, target_px,
                   key, released, last_pos_fid, prev_marker>>

\* lines 29-30: a new frame, or the break
Read ==
    /\ pc = "read"
    /\ \E r \in BOOLEAN :
         /\ ok' = r
         /\ pc' = IF r THEN "predict" ELSE "release"
    /\ img' = << >>
    /\ mm_before' = mm_per_px
    /\ UNCHANGED <<nboxes, boxes, fiducial_px_w, induration_box, mm_per_px, target_px,
                   key, released, last_pos_fid, prev_marker>>

\* the per-frame locals are initialised once, before the loop, not in it
Predict_NoReset ==
    /\ pc = "predict"
    /\ \E n \in 0..MaxDets :
         /\ nboxes' = n
         /\ pc' = IF n = 0 THEN "scale" ELSE "loop"
    /\ boxes' = << >>
    /\ UNCHANGED <<ok, fiducial_px_w, induration_box, mm_per_px, target_px, img, key,
                   released, mm_before, last_pos_fid, prev_marker>>

\* lines 33-36: the detector returns n detections; the locals are reset
Predict ==
    /\ pc = "predict"
    /\ \E n \in 0..MaxDets :
         /\ nboxes' = n
         /\ pc' = IF n = 0 THEN "scale" ELSE "loop"
    /\ boxes' = << >>
    /\ fiducial_px_w' = None
    /\ induration_box' = None
    /\ UNCHANGED <<ok, mm_per_px, target_px, img, key, released, mm_before, last_pos_fid, prev_marker>>

\* lines 38-50, one iteration: the next detection of results.boxes is box
ProcessBox ==
    /\ pc = "loop"
    /\ \E box \in Detections :
         LET out == BoxStep([fid |-> fiducial_px_w, ind |-> induration_box, img |-> img], box)
         IN  /\ boxes' = Append(boxes, box)
             /\ fiducial_px_w' = out.fid
             /\ induration_box' = out.ind
             /\ img' = out.img
    /\ pc' = IF Len(boxes) + 1 = nboxes THEN "scale" ELSE "loop"
    /\ UNCHANGED <<ok, nboxes, mm_per_px, target_px, key, released, mm_before, last_pos_fid, prev_marker>>

\* the last detection of ds with the given label, as <<d>>, or None
RECURSIVE LastLabeled(_, _)
LastLabeled(ds, label) ==
    IF ds = << >> THEN None
    ELSE IF ClassName(ds[Len(ds)].cls) = label THEN <<ds[Len(ds)]>>
    ELSE LastLabeled(SubSeq(ds, 1, Len(ds) - 1), label)

BoxSize(b) == MaxOf(b[3] - b[1], b[4] - b[2])

\* lines 53-54
UpdateScale ==
    /\ pc = "scale"
    /\ mm_per_px' = NewScale(fiducial_px_w, mm_per_px)
    /\ last_pos_fid' =
         LET f == LastLabeled(boxes, "fiducial")
         IN  IF f # None /\ BoxSize(f[1].xyxy) > 0 THEN <<BoxSize(f[1].xyxy)>>
             ELSE last_pos_fid
    /\ pc' = "center"
    /\ UNCHANGED <<ok, nboxes, boxes, fiducial_px_w, induration_box, target_px, img, key,
                   released, mm_before, prev_marker>>

\* lines 59-63
DrawCenter ==
    /\ pc = "center"
    /\ img' = IndurationOverlay(img, induration_box)
    /\ pc' = "distance"
    /\ UNCHANGED <<ok, nboxes, boxes, fiducial_px_w, induration_box, mm_per_px, target_px,
                   key, released, mm_before, last_pos_fid, prev_marker>>

\* lines 66-70
DrawScale ==
    /\ pc = "distance"
    /\ img' = ScaleOverlay(img, mm_per_px)
    /\ target_px' = IF ScaleTruthy(mm_per_px) THEN TargetPx(mm_per_px) ELSE target_px
    /\ pc' = "show"
    /\ UNCHANGED <<ok, nboxes, boxes, fiducial_px_w, induration_box, mm_per_px,
                   key, released, mm_before, last_pos_fid, prev_marker>>

\* lines 72-74: imshow, then "if cv2.waitKey(1) & 0xFF == 27: break".
\* The frame and results.boxes are not read again after imshow (the next iteration
\* rebinds both): the model drops them here.
ShowAndPoll ==
    /\ pc = "show"
    /\ \E k \in Keys :
         /\ key' = k
         /\ pc' = IF k % 256 = ESC THEN "release" ELSE "read"
    /\ prev_marker' = HasKind(img, "circle")
    /\ img' = << >>
    /\ boxes' = << >>
    /\ UNCHANGED <<ok, nboxes, fiducial_px_w, induration_box, mm_per_px, target_px,
                   released, mm_before, last_pos_fid>>

\* lines 76-77
Release ==
    /\ pc = "release"
    /\ released' = TRUE
    /\ pc' = "done"
    /\ UNCHANGED <<ok, nboxes, boxes, fiducial_px_w, induration_box, mm_per_px, target_px,
                   img, key, mm_before, last_pos_fid, prev_marker>>

Next ==
    \/ Read
    \/ Predict
    \/ ProcessBox
    \/ UpdateScale
    \/ DrawCenter
    \/ DrawScale
    \/ ShowAndPoll
    \/ Release

Spec == Init /\ [][Next]_vars

TypeOK ==
    /\ pc \in {"read", "predict", "loop", "scale", "center", "distance", "show",
               "release", "done"}
    /\ ok \in BOOLEAN
    /\ released \in BOOLEAN
    /\ Len(boxes) <= nboxes

\* ------------------------------------------------ reading a frame's result
Labeled(ds, label) == {i \in 1..Len(ds) : ClassName(ds[i].cls) = label}
HasLabel(ds, label) == Labeled(ds, label) # {}
IsKnown(d) == d.cls \in DOMAIN CLASS_NAMES
KnownOnly(ds) == SelectSeq(ds, IsKnown)

\* the for loop is over / the scale update is done / the frame is on screen
AfterLoop == pc \in {"scale", "center", "distance", "show"}
AfterScale == pc \in {"center", "distance", "show"}
Displayed == pc = "show"

\* lines 35-70 as one function of the detection list and the previous scale
RECURSIVE FoldBoxes(_, _)
FoldBoxes(loc, ds) ==
    IF ds = << >> THEN loc ELSE FoldBoxes(BoxStep(loc, Head(ds)), Tail(ds))

FrameResult(ds, mm) ==
    LET loc == FoldBoxes([fid |-> None, ind |-> None, img |-> << >>], ds)
        m   == NewScale(loc.fid, mm)
    IN  [fid |-> loc.fid, ind |-> loc.ind, mm |-> m,
         img |-> ScaleOverlay(IndurationOverlay(loc.img, loc.ind), m)]

\* ------------------------------------------------------------------ claims

\* C1: right after the loop visits a detection labeled "fiducial" with width w and
\* height h, fiducial_px_w is max(w, h); and once the scale update of a frame with a
\* fiducial is done, a positive fiducial_px_w is the max(w, h) of one of the frame's
\* fiducials and mm_per_px * fiducial_px_w = 50, whatever mm_per_px was before.
C1_FiducialSetsScale ==
    /\ (pc \in {"loop", "scale"} /\ boxes # << >>
            /\ ClassName(boxes[Len(boxes)].cls) = "fiducial")
         => fiducial_px_w = <<BoxSize(boxes[Len(boxes)].xyxy)>>
    /\ (AfterScale /\ HasLabel(boxes, "fiducial"))
         => /\ fiducial_px_w # None
            /\ \E i \in Labeled(boxes, "fiducial") :
                 fiducial_px_w[1] = BoxSize(boxes[i].xyxy)
            /\ fiducial_px_w[1] > 0
                 => /\ mm_per_px # None
                    /\ mm_per_px[1] * fiducial_px_w[1] = FIDUCIAL_MM * SubPx * mm_per_px[2]

C1_Witness ==
    /\ AfterScale
    /\ boxes # << >>
    /\ ClassName(boxes[Len(boxes)].cls) = "fiducial"
    /\ boxes[Len(boxes)].xyxy[3] - boxes[Len(boxes)].xyxy[1]
         # boxes[Len(boxes)].xyxy[4] - boxes[Len(boxes)].xyxy[2]
    /\ fiducial_px_w # None /\ fiducial_px_w[1] > 0
    /\ mm_before # None
    /\ mm_before # mm_per_px

\* C2: in a frame whose detections hold no "fiducial" (none at all, or only
\* indurations and unrecognized classes), mm_per_px is what it was when the frame
\* was read, None included.
C2_NoFiducialKeepsScale ==
    (pc \in {"loop", "scale", "center", "distance", "show"} /\ ~HasLabel(boxes, "fiducial"))
        => mm_per_px = mm_before

C2_Witness ==
    /\ Displayed
    /\ boxes # << >>
    /\ ~HasLabel(boxes, "fiducial")
    /\ \E i \in 1..Len(boxes) : ~IsKnown(boxes[i])
    /\ mm_per_px # None

\* C3 as stated: the marker of the frame's induration box (x1,y1,x2,y2) is drawn at
\* (round((x1+x2)/2), round((y1+y2)/2)).
C3_Original_RoundedCenter ==
    (pc \in {"distance", "show"} /\ HasLabel(boxes, "induration"))
        => LET b == LastLabeled(boxes, "induration")[1].xyxy
           IN  \E i \in 1..Len(img) :
                 /\ img[i].kind = "circle"
                 /\ img[i].pts = <<RoundHalfEven(b[1] + b[3], 2 * SubPx),
                                   RoundHalfEven(b[2] + b[4], 2 * SubPx)>>

\* C3 amended: the marker is drawn at the midpoint truncated to an integer pixel:
\* cx <= (x1+x2)/2 < cx + 1 and cy <= (y1+y2)/2 < cy + 1.
C3_TruncatedCenter ==
    (pc \in {"distance", "show"} /\ HasLabel(boxes, "induration"))
        => LET b == LastLabeled(boxes, "induration")[1].xyxy
           IN  /\ \E i \in 1..Len(img) : img[i].kind = "circle"
               /\ \A i \in 1..Len(img) :
                    img[i].kind = "circle"
                      => /\ img[i].pts[1] * 2 * SubPx <= b[1] + b[3]
                         /\ b[1] + b[3] < (img[i].pts[1] + 1) * 2 * SubPx
                         /\ img[i].pts[2] * 2 * SubPx <= b[2] + b[4]
                         /\ b[2] + b[4] < (img[i].pts[2] + 1) * 2 * SubPx

C3_Witness ==
    /\ Displayed
    /\ HasLabel(boxes, "induration")
    /\ HasKind(img, "circle")
    /\ LET b == LastLabeled(boxes, "induration")[1].xyxy
       IN  (b[1] + b[3]) % (2 * SubPx) > SubPx

\* C4: a displayed frame carries the scale text exactly when mm_per_px is set, and
\* mm_per_px is set exactly when this frame or an earlier one had a fiducial of
\* positive size: never before the first such frame, always from it on.
C4_ScaleTextIffScaleSet ==
    Displayed
        => /\ HasText(img, "Scale") <=> mm_per_px # None
           /\ mm_per_px # None <=> last_pos_fid # None

C4_Witness ==
    /\ Displayed
    /\ nboxes = 0
    /\ HasText(img, "Scale")
    /\ last_pos_fid # None

\* C5: detections of an unrecognized class change nothing: the locals, the scale and
\* everything drawn on a displayed frame are those of the same frame with the
\* unrecognized detections removed.
C5_UnknownClassIgnored ==
    Displayed
        => [fid |-> fiducial_px_w, ind |-> induration_box, mm |-> mm_per_px, img |-> img]
             = FrameResult(KnownOnly(boxes), mm_before)

C5_Witness ==
    /\ Displayed
    /\ Len(boxes) >= 2
    /\ ~IsKnown(boxes[1])
    /\ BoxSize(boxes[1].xyxy) > 0
    /\ IsKnown(boxes[Len(boxes)])

\* C6: a failed read ends the loop at once: the step that reads the failure goes to
\* the release with no detection, no scale change, nothing drawn and no key polled;
\* no read follows it; the release is the next and last step.
C6_ReadFailureEndsLoop ==
    /\ [](~ok => pc \in {"release", "done"})
    /\ [](pc = "done" => released)
    /\ [][(pc = "read" /\ ~ok')
            => /\ pc' = "release"
               /\ img' = << >>
               /\ UNCHANGED <<nboxes, boxes, fiducial_px_w, induration_box, mm_per_px,
                              target_px, key, released>>]_vars
    /\ [][pc = "release" => (pc' = "done" /\ released')]_vars

C6_Witness ==
    /\ ~ok
    /\ pc = "done"
    /\ released
    /\ mm_per_px # None
    /\ key = -1

\* C7: after the loop, fiducial_px_w is max(w, h) of the last "fiducial" of the list
\* and induration_box is the box of its last "induration"; and when the last fiducial
\* has size 0, mm_per_px is not updated, whatever the earlier fiducials were.
C7_LastDetectionWins ==
    AfterLoop
        => LET f == LastLabeled(boxes, "fiducial")
               r == LastLabeled(boxes, "induration")
           IN  /\ fiducial_px_w = IF f = None THEN None ELSE <<BoxSize(f[1].xyxy)>>
               /\ induration_box = IF r = None THEN None ELSE r[1].xyxy
               /\ (AfterScale /\ f # None /\ BoxSize(f[1].xyxy) = 0)
                     => mm_per_px = mm_before

C7_Witness ==
    /\ Displayed
    /\ Len(boxes) >= 2
    /\ ClassName(boxes[1].cls) = "fiducial"
    /\ BoxSize(boxes[1].xyxy) > 0
    /\ ClassName(boxes[Len(boxes)].cls) = "fiducial"
    /\ BoxSize(boxes[Len(boxes)].xyxy) = 0
    /\ mm_per_px = mm_before

\* C8: a displayed frame has the center marker, and the guidance text, exactly when
\* its own detection list holds an "induration", whatever the frame before it had.
C8_MarkerIsFrameScoped ==
    Displayed
        => /\ HasKind(img, "circle") <=> HasLabel(boxes, "induration")
           /\ HasText(img, "Center bump in circle") <=> HasLabel(boxes, "induration")

C8_Witness ==
    /\ Displayed
    /\ prev_marker
    /\ ~HasLabel(boxes, "induration")
    /\ ~HasKind(img, "circle")

\* C9: whenever the scale text is on a displayed frame, target_px is the size of the
\* last fiducial of the most recent frame where that size was positive, and
\* mm_per_px is 50 over that size.
C9_TargetIsLastPositiveFiducial ==
    (Displayed /\ HasText(img, "Scale"))
        => /\ last_pos_fid # None
           /\ target_px # None
           /\ target_px[1] * SubPx = last_pos_fid[1] * target_px[2]
           /\ mm_per_px[1] * last_pos_fid[1] = FIDUCIAL_MM * SubPx * mm_per_px[2]

C9_Witness ==
    /\ Displayed
    /\ HasText(img, "Scale")
    /\ ~HasLabel(boxes, "fiducial")
    /\ HasLabel(boxes, "induration")

\* C10: mm_per_px is None or strictly positive, a set mm_per_px never becomes None
\* again, and the target_px computation never finds mm_per_px <= 0.
C10_ScalePositiveOnceSet ==
    /\ [](mm_per_px = None \/ (mm_per_px[1] > 0 /\ mm_per_px[2] > 0))
    /\ [][mm_per_px # None => mm_per_px' # None]_vars
    /\ []((pc = "distance" /\ ScaleTruthy(mm_per_px)) => mm_per_px[1] > 0)

C10_Witness ==
    /\ pc = "distance"
    /\ fiducial_px_w = <<0>>
    /\ mm_per_px # None
====
